---- MODULE Spec2Model ----
(***************************************************************************)
(* A model of package testutil (lag13/testutil): CheckErrHasMsg,           *)
(* MustReadAll, CompareStrings, CheckHTTPRequest, CheckHTTPResponse        *)
(* (testutil.go) and HTTPReqToTestutilHTTPReq, CompareHTTPRequests (the    *)
(* earlier revision of the package).                                       *)
(*                                                                         *)
(* Go strings are sequences of bytes (0..255).  A string the package       *)
(* builds with fmt.Sprintf is a sequence of pieces: the literal text of    *)
(* the format (Lit) and the rendered verbs %s (Str), %q (Quoted) and       *)
(* %d (Num), in the order of the format.  The empty Go string is the       *)
(* empty sequence; every format of the package starts with literal text,   *)
(* so a formatted message is never the empty string.                       *)
(***************************************************************************)
EXTENDS Integers, Sequences, FiniteSets, TLC

VARIABLES
    test,      \* the test function that is running
    op,        \* the function of the package called last ("none" at start)
    gotStr,    \* CompareStrings: got
    wantStr,   \* CompareStrings: want
    err,       \* CheckErrHasMsg: err
    wantMsg,   \* CheckErrHasMsg: wantMsg
    req,       \* the live *http.Request held by the test
    wantReq,   \* the HTTPRequest the test expects
    resp,      \* the live *http.Response held by the test
    wantResp,  \* the HTTPResponse the test expects
    reqModel,  \* the HTTPRequest made by HTTPReqToTestutilHTTPReq
    inBody,    \* the body stream as it was when the last call started
    ret        \* outcome of the last call: a returned string or a panic

vars == <<test, op, gotStr, wantStr, err, wantMsg, req, wantReq, resp,
          wantResp, reqModel, inBody, ret>>

----------------------------------------------------------------------------
(* Bounds *)

\* longest string handed to CompareStrings and CheckErrHasMsg
MaxLen == 3
\* most header names in the expected header map
MaxWantHeaders == 2
\* most header names in the header map of the live request or response
MaxGotHeaders == 1
\* longest body in the tests that call the package repeatedly on one object
MaxBodyLen == 2

----------------------------------------------------------------------------
(* Strings and formatted text *)

\* all byte strings over alphabet A of length at most n
RECURSIVE SeqsUpTo(_, _)
SeqsUpTo(A, n) ==
    IF n = 0 THEN {<<>>}
    ELSE LET shorter == SeqsUpTo(A, n - 1)
         IN  shorter \cup {Append(s, a) : s \in {t \in shorter : Len(t) = n - 1}, a \in A}

\* s[i:] of Go, i a 0-based byte index with 0 <= i <= len(s)
SliceFrom(s, i) == SubSeq(s, i + 1, Len(s))

\* strings.HasPrefix(s, prefix)
HasPrefix(s, prefix) ==
    Len(s) >= Len(prefix) /\ SubSeq(s, 1, Len(prefix)) = prefix

Lit(text) == [lit |-> text, bytes |-> <<>>, num |-> 0]
Str(b) == [lit |-> "%s", bytes |-> b, num |-> 0]
Quoted(b) == [lit |-> "%q", bytes |-> b, num |-> 0]
Num(n) == [lit |-> "%d", bytes |-> <<>>, num |-> n]

EmptyString == <<>>

\* strings.Join(elems, sep): the elements with sep between neighbours
RECURSIVE Join(_, _)
Join(elems, sep) ==
    IF Len(elems) = 0 THEN EmptyString
    ELSE IF Len(elems) = 1 THEN elems[1]
    ELSE elems[1] \o sep \o Join(Tail(elems), sep)

----------------------------------------------------------------------------
(* for i := range want: the byte indices where a rune of want starts.      *)
(* RuneWidth is the width utf8 decoding gives the rune starting at byte    *)
(* index i (0-based): 1 for ASCII and for every invalid or truncated       *)
(* encoding, else the length of the well-formed sequence.                  *)

InRange(b, lo, hi) == lo <= b /\ b <= hi

\* the bytes a second byte may take after lead byte b
AcceptLo(b) == IF b = 224 THEN 160 ELSE IF b = 240 THEN 144 ELSE 128
AcceptHi(b) == IF b = 237 THEN 159 ELSE IF b = 244 THEN 143 ELSE 191

\* the encoded length the lead byte b announces (0: not a lead byte)
LeadSize(b) ==
    IF InRange(b, 0, 127) THEN 1
    ELSE IF InRange(b, 194, 223) THEN 2
    ELSE IF InRange(b, 224, 239) THEN 3
    ELSE IF InRange(b, 240, 244) THEN 4
    ELSE 0

RuneWidth(s, i) ==
    LET b0 == s[i + 1]
        sz == LeadSize(b0)
        n  == Len(s) - i
    IN  IF sz <= 1 THEN 1
        ELSE IF n < sz THEN 1
        ELSE IF ~InRange(s[i + 2], AcceptLo(b0), AcceptHi(b0)) THEN 1
        ELSE IF sz = 2 THEN 2
        ELSE IF ~InRange(s[i + 3], 128, 191) THEN 1
        ELSE IF sz = 3 THEN 3
        ELSE IF ~InRange(s[i + 4], 128, 191) THEN 1
        ELSE 4

----------------------------------------------------------------------------
(* CompareStrings *)

ShorterMsg(want, i) ==
    << Lit("got a shorter string than what we wanted (characters match otherwise) and the missing characters are: "),
       Str(SliceFrom(want, i)) >>

DifferMsg(got, want, i) ==
    << Lit("strings differ at index "), Num(i),
       Lit(", from that index on:\n##### got string #####\n"), Str(SliceFrom(got, i)),
       Lit("\n##### want string #####\n"), Str(SliceFrom(want, i)) >>

LongerMsg(got, want) ==
    << Lit("got a longer string than what we wanted (characters match otherwise) and the extra characters are: "),
       Str(SliceFrom(got, Len(want))) >>

\* the loop of CompareStrings from the rune of want that starts at byte i
RECURSIVE CompareStringsFrom(_, _, _)
CompareStringsFrom(got, want, i) ==
    IF i >= Len(want)
    THEN IF Len(want) < Len(got) THEN LongerMsg(got, want) ELSE EmptyString
    ELSE IF i > Len(got) - 1 THEN ShorterMsg(want, i)
    ELSE IF got[i + 1] # want[i + 1] THEN DifferMsg(got, want, i)
    ELSE CompareStringsFrom(got, want, i + RuneWidth(want, i))

CompareStrings(got, want) == CompareStringsFrom(got, want, 0)

----------------------------------------------------------------------------
(* CheckErrHasMsg *)

\* an error value: nil, or an error whose Error() is msg
NilErr == [isNil |-> TRUE, msg |-> <<>>]
NewErr(m) == [isNil |-> FALSE, msg |-> m]

\* "<nil>"
NilText == <<60, 110, 105, 108, 62>>

\* fmt.Sprintf("%v", err)
SprintfV(e) == IF e.isNil THEN NilText ELSE e.msg

CheckErrHasMsg(e, want) ==
    IF want = <<>> /\ ~e.isNil
    THEN << Lit("got non-nil error: "), Str(SprintfV(e)) >>
    ELSE IF want # <<>> /\ ~HasPrefix(SprintfV(e), want)
    THEN << Lit("got error message:\n  "), Str(SprintfV(e)),
            Lit("\nwant error message to start with the string:\n  "), Str(want) >>
    ELSE EmptyString

----------------------------------------------------------------------------
(* http.Header: a map from header name to the list of its values.  The     *)
(* keys are stored as written; Get looks its argument up in canonical form *)

IsLower(c) == InRange(c, 97, 122)
IsUpper(c) == InRange(c, 65, 90)
IsDigit(c) == InRange(c, 48, 57)

\* the bytes a header field name may hold (an HTTP token)
ValidHeaderFieldByte(c) ==
    IsLower(c) \/ IsUpper(c) \/ IsDigit(c)
        \/ c \in {33, 35, 36, 37, 38, 39, 42, 43, 45, 46, 94, 95, 96, 124, 126}

\* the canonical form of the bytes of s from position i on; upper tells
\* whether the byte at i starts a word (first byte, or the byte after '-')
RECURSIVE CanonicalFrom(_, _, _)
CanonicalFrom(s, i, upper) ==
    IF i > Len(s) THEN <<>>
    ELSE LET c == s[i]
             d == IF upper /\ IsLower(c) THEN c - 32
                  ELSE IF ~upper /\ IsUpper(c) THEN c + 32
                  ELSE c
         IN  <<d>> \o CanonicalFrom(s, i + 1, d = 45)

\* textproto.CanonicalMIMEHeaderKey: a key holding a byte that is no token
\* byte is returned unchanged
CanonicalMIMEHeaderKey(s) ==
    IF \E i \in 1..Len(s) : ~ValidHeaderFieldByte(s[i]) THEN s
    ELSE CanonicalFrom(s, 1, TRUE)

\* http.Header.Get: the first value stored under the canonical form of key,
\* "" when there is none
Get(h, key) ==
    LET k == CanonicalMIMEHeaderKey(key)
    IN  IF k \in DOMAIN h /\ Len(h[k]) > 0 THEN h[k][1] ELSE <<>>

\* the orders in which a range over a map with key set S may visit the keys
Orders(S) ==
    {o \in [1..Cardinality(S) -> S] : \A i, j \in DOMAIN o : i # j => o[i] # o[j]}

\* a header loop that ranges over the names of both sides
HeaderNamesOfBoth(gotH, wantH) == DOMAIN wantH \cup DOMAIN gotH

\* the header names the comparators visit: for headerName := range want.Header
HeaderNamesChecked(gotH, wantH) == DOMAIN wantH

\* the diff entries of the header loop, visiting the names in the given order;
\* prefix is the literal text that opens an entry
RECURSIVE HeaderDiffs(_, _, _, _)
HeaderDiffs(gotH, wantH, order, prefix) ==
    IF Len(order) = 0 THEN <<>>
    ELSE LET headerName == Head(order)
             g == Get(gotH, headerName)
             w == Get(wantH, headerName)
             rest == HeaderDiffs(gotH, wantH, Tail(order), prefix)
         IN  IF g # w
             THEN << << Lit(prefix), Quoted(headerName), Lit(" got value "),
                        Quoted(g), Lit(", want "), Quoted(w) >> >> \o rest
             ELSE rest

----------------------------------------------------------------------------
(* url.URL and its String method, for a URL made of scheme, host, path and *)
(* query                                                                   *)

URLString(u) ==
    (IF u.Scheme # <<>> THEN u.Scheme \o <<58>> ELSE <<>>)
    \o (IF (u.Scheme # <<>> \/ u.Host # <<>>) /\ (u.Host # <<>> \/ u.Path # <<>>)
        THEN <<47, 47>> ELSE <<>>)
    \o u.Host
    \o (IF u.Path # <<>> /\ u.Path[1] # 47 /\ u.Host # <<>> THEN <<47>> ELSE <<>>)
    \o u.Path
    \o (IF u.RawQuery # <<>> THEN <<63>> \o u.RawQuery ELSE <<>>)

----------------------------------------------------------------------------
(* Body streams and MustReadAll *)

\* an io.ReadCloser: nil, or a stream over data read up to pos, whose Read
\* fails when broken
NilBody == [isNil |-> TRUE, data |-> <<>>, pos |-> 0, broken |-> FALSE, closed |-> FALSE]
NewBody(d) == [isNil |-> FALSE, data |-> d, pos |-> 0, broken |-> FALSE, closed |-> FALSE]
BrokenBody == [isNil |-> FALSE, data |-> <<>>, pos |-> 0, broken |-> TRUE, closed |-> FALSE]

Returned(v) == [kind |-> "return", val |-> v, cause |-> ""]
Panicked(c) == [kind |-> "panic", val |-> EmptyString, cause |-> c]
NoOutcome == [kind |-> "none", val |-> EmptyString, cause |-> ""]

\* MustReadAll(r): the rest of the stream, or a panic: with the read error
\* when Read fails, with the runtime's nil dereference when r is nil
MustReadAll(r) ==
    IF r.isNil THEN Panicked("runtime error: invalid memory address or nil pointer dereference")
    ELSE IF r.broken THEN Panicked("read error")
    ELSE Returned(SliceFrom(r.data, r.pos))

\* a stream that MustReadAll leaves where it was (a body that can be read again)
AfterReadAllRewound(r) == r

\* the stream after MustReadAll(r): read to its end; not closed
AfterReadAll(r) ==
    IF r.isNil \/ r.broken THEN r ELSE [r EXCEPT !.pos = Len(r.data)]

----------------------------------------------------------------------------
(* CheckHTTPRequest, CheckHTTPResponse *)

MethodDiffs(g, w) ==
    IF g # w THEN << << Lit("got method "), Quoted(g), Lit(", want "), Quoted(w) >> >>
    ELSE <<>>

URLDiffs(g, w) ==
    IF g # w THEN << << Lit("got url:\n  "), Quoted(g), Lit("\nwant:\n  "), Quoted(w) >> >>
    ELSE <<>>

BodyDiffs(g, w) ==
    LET diff == CompareStrings(g, w)
    IN  IF diff # EmptyString THEN << <<Lit("body is not expected, ")>> \o diff >>
        ELSE <<>>

StatusDiffs(g, w) ==
    IF g # w THEN << << Lit("got status code "), Num(g), Lit(", want "), Num(w) >> >>
    ELSE <<>>

\* the result built from the diff entries
Report(summary, diffs) ==
    IF Len(diffs) > 0 THEN <<Lit(summary)>> \o Join(diffs, <<Lit("\n")>>)
    ELSE EmptyString

\* CheckHTTPRequest(got, want), the header loop visiting want's names in order
CheckHTTPRequest(got, want, order) ==
    LET read == MustReadAll(got.Body)
        diffs == HeaderDiffs(got.Header, want.Header, order, "header ")
                 \o MethodDiffs(got.Method, want.Method)
                 \o URLDiffs(URLString(got.URL), want.URL)
                 \o (IF read.kind = "return" THEN BodyDiffs(read.val, want.Body) ELSE <<>>)
    IN  IF read.kind = "panic" THEN read
        ELSE Returned(Report("request does not match what is expected:\n", diffs))

\* CheckHTTPResponse(gotResp, wantResp), the header loop visiting the names
\* of wantResp in order
CheckHTTPResponse(got, want, order) ==
    LET read == MustReadAll(got.Body)
        diffs == StatusDiffs(got.StatusCode, want.StatusCode)
                 \o HeaderDiffs(got.Header, want.Header, order, "header ")
                 \o (IF read.kind = "return" THEN BodyDiffs(read.val, want.Body) ELSE <<>>)
    IN  IF read.kind = "panic" THEN read
        ELSE Returned(Report("response does not match what is expected:\n", diffs))

----------------------------------------------------------------------------
(* HTTPReqToTestutilHTTPReq, CompareHTTPRequests (earlier revision) *)

NoHTTPRequest == [made |-> FALSE, Header |-> <<>>, Method |-> <<>>, URL |-> <<>>, Body |-> <<>>]

\* HTTPReqToTestutilHTTPReq(req), given what MustReadAll(req.Body) returned
HTTPReqToTestutilHTTPReq(r, body) ==
    [made |-> TRUE, Header |-> r.Header, Method |-> r.Method,
     URL |-> URLString(r.URL), Body |-> body]

GotBodyDiffs(g, w) ==
    IF g # w THEN << << Lit("got body:\n  "), Str(g), Lit("\nwant:\n  "), Str(w) >> >>
    ELSE <<>>

CompareHTTPRequests(got, want, order) ==
    LET diffs == HeaderDiffs(got.Header, want.Header, order, "for header ")
                 \o MethodDiffs(got.Method, want.Method)
                 \o URLDiffs(got.URL, want.URL)
                 \o GotBodyDiffs(got.Body, want.Body)
    IN  Report("request is not expected:\n", diffs)

----------------------------------------------------------------------------
(* The inputs the tests draw from *)

\* 'a', the lead byte of a two-byte rune, a continuation byte: "\xc3\xa9" is
\* one rune, every other arrangement of 195 and 169 is invalid UTF-8
StringAlphabet == {97, 195, 169}
Strings == SeqsUpTo(StringAlphabet, MaxLen)

\* '<', 'n', 'e'
ErrAlphabet == {60, 110, 101}
ErrStrings == SeqsUpTo(ErrAlphabet, MaxLen)
Errors == {NilErr} \cup {NewErr(m) : m \in ErrStrings}

\* "H", "h", "X"
HeaderNames == {<<72>>, <<104>>, <<88>>}
\* {""}, {"a"}, {"b", "a"}
ValueLists == {<< <<>> >>, << <<97>> >>, << <<98>>, <<97>> >>}
HeaderMaps(n) ==
    UNION {[D -> ValueLists] : D \in {S \in SUBSET HeaderNames : Cardinality(S) <= n}}

\* "G", "P"
GotMethods == {<<71>>}
WantMethods == {<<71>>, <<80>>}

\* h://a, h://b
URLTo(host) == [Scheme |-> <<104>>, Host |-> host, Path |-> <<>>, RawQuery |-> <<>>]
GotURLs == {URLTo(<<97>>)}
WantURLs == {URLString(URLTo(<<97>>)), URLString(URLTo(<<98>>))}

GotStatusCodes == {200}
WantStatusCodes == {200, 404}

\* the body a live request or response carries: none (nil), a stream whose
\* Read fails, or a stream over "", "a", "\xc3\xa9", "\xc3a"
GotBodies == {NilBody, BrokenBody} \cup {NewBody(d) : d \in {<<>>, <<97>>, <<195, 169>>, <<195, 97>>}}
WantBodies == {<<>>, <<195, 169>>}

NoRequest ==
    [live |-> FALSE, Method |-> <<>>, URL |-> URLTo(<<>>), Header |-> <<>>, Body |-> NilBody]
NoResponse == [live |-> FALSE, StatusCode |-> 0, Header |-> <<>>, Body |-> NilBody]
NoWantRequest == [Header |-> <<>>, Method |-> <<>>, URL |-> <<>>, Body |-> <<>>]
NoWantResponse == [StatusCode |-> 0, Header |-> <<>>, Body |-> <<>>]

----------------------------------------------------------------------------
(* Initial states: a test with its inputs, before it calls the package *)

NoStrings == gotStr = <<>> /\ wantStr = <<>>
NoError == err = NilErr /\ wantMsg = <<>>
NoLiveRequest == req = NoRequest /\ wantReq = NoWantRequest /\ reqModel = NoHTTPRequest
NoLiveResponse == resp = NoResponse /\ wantResp = NoWantResponse
NoCall == op = "none" /\ ret = NoOutcome /\ inBody = NilBody

InitStrings ==
    /\ test = "TestCompareStrings"
    /\ gotStr \in Strings /\ wantStr \in Strings
    /\ NoError /\ NoLiveRequest /\ NoLiveResponse /\ NoCall

InitErr ==
    /\ test = "TestCheckErrHasMsg"
    /\ err \in Errors /\ wantMsg \in ErrStrings
    /\ NoStrings /\ NoLiveRequest /\ NoLiveResponse /\ NoCall

InitRequest ==
    /\ test = "TestCheckHTTPRequest"
    /\ req \in [live : {TRUE}, Method : GotMethods, URL : GotURLs,
                Header : HeaderMaps(MaxGotHeaders), Body : GotBodies]
    /\ wantReq \in [Header : HeaderMaps(MaxWantHeaders), Method : WantMethods,
                    URL : WantURLs, Body : WantBodies]
    /\ reqModel = NoHTTPRequest
    /\ NoStrings /\ NoError /\ NoLiveResponse /\ NoCall

InitResponse ==
    /\ test = "TestCheckHTTPResponse"
    /\ resp \in [live : {TRUE}, StatusCode : GotStatusCodes,
                 Header : HeaderMaps(MaxGotHeaders), Body : GotBodies]
    /\ wantResp \in [StatusCode : WantStatusCodes, Header : HeaderMaps(MaxWantHeaders),
                     Body : WantBodies]
    /\ NoStrings /\ NoError /\ NoLiveRequest /\ NoCall

\* the tests of the header policy: every header map, one readable body
HeaderTestBodies == {NewBody(<<97>>), NewBody(<<195, 169>>)}
HeaderTestWantBodies == {<<195, 169>>}

InitHeaders ==
    \/ /\ test = "TestCheckHTTPRequest"
       /\ req \in [live : {TRUE}, Method : GotMethods, URL : GotURLs,
                   Header : HeaderMaps(MaxGotHeaders), Body : HeaderTestBodies]
       /\ wantReq \in [Header : HeaderMaps(MaxWantHeaders), Method : WantMethods,
                       URL : {URLString(u) : u \in GotURLs}, Body : HeaderTestWantBodies]
       /\ reqModel = NoHTTPRequest
       /\ NoStrings /\ NoError /\ NoLiveResponse /\ NoCall
    \/ /\ test = "TestCheckHTTPResponse"
       /\ resp \in [live : {TRUE}, StatusCode : GotStatusCodes,
                    Header : HeaderMaps(MaxGotHeaders), Body : HeaderTestBodies]
       /\ wantResp \in [StatusCode : WantStatusCodes, Header : HeaderMaps(MaxWantHeaders),
                        Body : HeaderTestWantBodies]
       /\ NoStrings /\ NoError /\ NoLiveRequest /\ NoCall

\* the tests that call the package repeatedly on one live object: every
\* body, headers that match or mismatch in one name
LiveTestBodies ==
    {NilBody, BrokenBody} \cup {NewBody(d) : d \in SeqsUpTo(StringAlphabet, MaxBodyLen)}
LiveTestWantBodies == SeqsUpTo(StringAlphabet, MaxBodyLen)
LiveTestWantHeaders == {<<>>, <<72>> :> << <<97>> >>}

InitLive ==
    \/ /\ test = "TestCheckHTTPRequest"
       /\ req \in [live : {TRUE}, Method : GotMethods, URL : GotURLs,
                   Header : {<<>>}, Body : LiveTestBodies]
       /\ wantReq \in [Header : LiveTestWantHeaders, Method : GotMethods,
                       URL : {URLString(u) : u \in GotURLs}, Body : LiveTestWantBodies]
       /\ reqModel = NoHTTPRequest
       /\ NoStrings /\ NoError /\ NoLiveResponse /\ NoCall
    \/ /\ test = "TestCheckHTTPResponse"
       /\ resp \in [live : {TRUE}, StatusCode : GotStatusCodes,
                    Header : {<<>>}, Body : LiveTestBodies]
       /\ wantResp \in [StatusCode : GotStatusCodes, Header : LiveTestWantHeaders,
                        Body : LiveTestWantBodies]
       /\ NoStrings /\ NoError /\ NoLiveRequest /\ NoCall

Init == InitStrings \/ InitErr \/ InitRequest \/ InitResponse

----------------------------------------------------------------------------
(* Actions: one call of a function of the package *)

CallCompareStrings ==
    /\ test = "TestCompareStrings"
    /\ op' = "CompareStrings"
    /\ ret' = Returned(CompareStrings(gotStr, wantStr))
    /\ UNCHANGED <<test, gotStr, wantStr, err, wantMsg, req, wantReq, resp, wantResp,
                   reqModel, inBody>>

CallCheckErrHasMsg ==
    /\ test = "TestCheckErrHasMsg"
    /\ op' = "CheckErrHasMsg"
    /\ ret' = Returned(CheckErrHasMsg(err, wantMsg))
    /\ UNCHANGED <<test, gotStr, wantStr, err, wantMsg, req, wantReq, resp, wantResp,
                   reqModel, inBody>>

CallCheckHTTPRequest ==
    /\ req.live
    /\ \E order \in Orders(HeaderNamesChecked(req.Header, wantReq.Header)) :
           ret' = CheckHTTPRequest(req, wantReq, order)
    /\ op' = "CheckHTTPRequest"
    /\ inBody' = req.Body
    /\ req' = [req EXCEPT !.Body = AfterReadAll(req.Body)]
    /\ UNCHANGED <<test, gotStr, wantStr, err, wantMsg, wantReq, resp, wantResp, reqModel>>

CallHTTPReqToTestutilHTTPReq ==
    /\ req.live
    /\ LET read == MustReadAll(req.Body)
       IN  IF read.kind = "panic"
           THEN ret' = read /\ UNCHANGED reqModel
           ELSE /\ ret' = [kind |-> "model", val |-> EmptyString, cause |-> ""]
                /\ reqModel' = HTTPReqToTestutilHTTPReq(req, read.val)
    /\ op' = "HTTPReqToTestutilHTTPReq"
    /\ inBody' = req.Body
    /\ req' = [req EXCEPT !.Body = AfterReadAll(req.Body)]
    /\ UNCHANGED <<test, gotStr, wantStr, err, wantMsg, wantReq, resp, wantResp>>

CallCompareHTTPRequests ==
    /\ reqModel.made
    /\ \E order \in Orders(HeaderNamesChecked(reqModel.Header, wantReq.Header)) :
           ret' = Returned(CompareHTTPRequests(reqModel, wantReq, order))
    /\ op' = "CompareHTTPRequests"
    /\ UNCHANGED <<test, gotStr, wantStr, err, wantMsg, req, wantReq, resp, wantResp,
                   reqModel, inBody>>

CallCheckHTTPResponse ==
    /\ resp.live
    /\ \E order \in Orders(HeaderNamesChecked(resp.Header, wantResp.Header)) :
           ret' = CheckHTTPResponse(resp, wantResp, order)
    /\ op' = "CheckHTTPResponse"
    /\ inBody' = resp.Body
    /\ resp' = [resp EXCEPT !.Body = AfterReadAll(resp.Body)]
    /\ UNCHANGED <<test, gotStr, wantStr, err, wantMsg, req, wantReq, wantResp, reqModel>>

NextRequest ==
    CallCheckHTTPRequest \/ CallHTTPReqToTestutilHTTPReq \/ CallCompareHTTPRequests

NextHTTP == NextRequest \/ CallCheckHTTPResponse

Next ==
    \/ CallCompareStrings
    \/ CallCheckErrHasMsg
    \/ CallCheckHTTPRequest
    \/ CallHTTPReqToTestutilHTTPReq
    \/ CallCompareHTTPRequests
    \/ CallCheckHTTPResponse

Spec == Init /\ [][Next]_vars
SpecStrings == InitStrings /\ [][CallCompareStrings]_vars
SpecErr == InitErr /\ [][CallCheckErrHasMsg]_vars
SpecRequest == InitRequest /\ [][NextRequest]_vars
SpecResponse == InitResponse /\ [][CallCheckHTTPResponse]_vars
SpecHeaders == InitHeaders /\ [][NextHTTP]_vars
SpecLive == InitLive /\ [][NextHTTP]_vars

----------------------------------------------------------------------------
(* Claims about CompareStrings (checked under SpecStrings) *)

\* the smallest 0-based byte index at which a and b differ (a # b, equal length)
FirstDiff(a, b) ==
    CHOOSE i \in 0..(Len(a) - 1) :
        /\ a[i + 1] # b[i + 1]
        /\ \A j \in 0..(i - 1) : a[j + 1] = b[j + 1]

IsStrictPrefix(a, b) == Len(a) < Len(b) /\ SubSeq(b, 1, Len(a)) = a

\* C1: for all byte strings got and want, CompareStrings(got, want) returns
\* the empty string exactly when got and want are the same string.
C1_EmptyExactlyWhenEqual ==
    op = "CompareStrings" => ((ret.val = EmptyString) <=> (gotStr = wantStr))

\* C2: for strings a # b of equal length CompareStrings(a, b) returns the
\* 'strings differ at index i' message, i the smallest byte index with
\* a[i] # b[i], followed by the suffixes a[i:] and b[i:].
C2_FirstDifferingByteIndex ==
    (op = "CompareStrings" /\ gotStr # wantStr /\ Len(gotStr) = Len(wantStr))
        => ret.val = DifferMsg(gotStr, wantStr, FirstDiff(gotStr, wantStr))

\* C3: whenever got is a strict prefix of want, CompareStrings(got, want)
\* returns the 'got a shorter string' message whose missing characters are
\* exactly want[len(got):].
C3_ShorterReportsWholeMissingSuffix ==
    (op = "CompareStrings" /\ IsStrictPrefix(gotStr, wantStr))
        => ret.val = ShorterMsg(wantStr, Len(gotStr))

----------------------------------------------------------------------------
(* Claims about CheckErrHasMsg (checked under SpecErr) *)

\* C4: CheckErrHasMsg(err, wantPrefix) returns the empty string exactly when
\* err is absent and wantPrefix is empty, or err is present, wantPrefix is
\* non-empty and err's message starts with wantPrefix; so an absent err with
\* a non-empty wantPrefix always yields the two-line report.
C4_EmptyExactlyWhenErrMatches ==
    op = "CheckErrHasMsg" =>
        /\ (ret.val = EmptyString) <=>
               \/ err.isNil /\ wantMsg = <<>>
               \/ ~err.isNil /\ wantMsg # <<>> /\ HasPrefix(err.msg, wantMsg)
        /\ (err.isNil /\ wantMsg # <<>>) =>
               ret.val = << Lit("got error message:\n  "), Str(NilText),
                            Lit("\nwant error message to start with the string:\n  "),
                            Str(wantMsg) >>

----------------------------------------------------------------------------
(* Claims about the header policy of the comparators *)

\* the number of diff lines of the result text that name header h
LinesNaming(text, h) ==
    Cardinality({i \in 1..(Len(text) - 1) :
                    /\ text[i] \in {Lit("header "), Lit("for header ")}
                    /\ text[i + 1] = Quoted(h)})

\* header names are the same name when they agree up to case
SameName(a, b) == CanonicalMIMEHeaderKey(a) = CanonicalMIMEHeaderKey(b)

\* got carries a header named h
Carries(gotH, h) == \E k \in DOMAIN gotH : SameName(k, h)

\* the first value want gives for its header name h ("" for an empty list)
WantFirst(wantH, h) == IF Len(wantH[h]) > 0 THEN wantH[h][1] ELSE <<>>

HeaderReported(gotH, wantH, text) ==
    \A h \in DOMAIN wantH :
        (~Carries(gotH, h) \/ Get(gotH, h) # WantFirst(wantH, h))
            => LinesNaming(text, h) = 1

\* C5: for every header name of want.headers whose first value in got differs
\* from its first value in want, or which got does not carry at all,
\* CheckHTTPRequest and CheckHTTPResponse report exactly one diff line naming
\* that header.
C5_WantedHeaderNeverPassedSilently ==
    /\ (op = "CheckHTTPRequest" /\ ret.kind = "return")
           => HeaderReported(req.Header, wantReq.Header, ret.val)
    /\ (op = "CheckHTTPResponse" /\ ret.kind = "return")
           => HeaderReported(resp.Header, wantResp.Header, ret.val)

\* h with header k |-> v added
WithHeader(h, k, v) == [x \in DOMAIN h \cup {k} |-> IF x = k THEN v ELSE h[x]]

\* the header names that are not among the names of wantH
NotWanted(wantH) == {k \in HeaderNames : \A h \in DOMAIN wantH : ~SameName(k, h)}

\* the results a comparator may return for got and want
RequestResults(got, want) ==
    {CheckHTTPRequest(got, want, o) :
        o \in Orders(HeaderNamesChecked(got.Header, want.Header))}
ResponseResults(got, want) ==
    {CheckHTTPResponse(got, want, o) :
        o \in Orders(HeaderNamesChecked(got.Header, want.Header))}
ModelResults(got, want) ==
    {Returned(CompareHTTPRequests(got, want, o)) :
        o \in Orders(HeaderNamesChecked(got.Header, want.Header))}

\* the live request and response as the last call found them
ReqAtCall == [req EXCEPT !.Body = inBody]
RespAtCall == [resp EXCEPT !.Body = inBody]

\* C6: headers present only in got are ignored: adding to got a header whose
\* name (a header name, so taken up to case) is not among want's header names
\* leaves the result of CheckHTTPRequest, CompareHTTPRequests and
\* CheckHTTPResponse unchanged, and the result never mentions such a header.
C6_ExtraGotHeadersIgnored ==
    /\ op = "CheckHTTPRequest" =>
        /\ \A k \in NotWanted(wantReq.Header) \ DOMAIN req.Header : \A v \in ValueLists :
              LET more == [ReqAtCall EXCEPT !.Header = WithHeader(req.Header, k, v)]
              IN  /\ ret \in RequestResults(more, wantReq)
                  /\ RequestResults(more, wantReq) = RequestResults(ReqAtCall, wantReq)
        /\ \A k \in NotWanted(wantReq.Header) : LinesNaming(ret.val, k) = 0
    /\ op = "CompareHTTPRequests" =>
        /\ \A k \in NotWanted(wantReq.Header) \ DOMAIN reqModel.Header : \A v \in ValueLists :
              LET more == [reqModel EXCEPT !.Header = WithHeader(reqModel.Header, k, v)]
              IN  /\ ret \in ModelResults(more, wantReq)
                  /\ ModelResults(more, wantReq) = ModelResults(reqModel, wantReq)
        /\ \A k \in NotWanted(wantReq.Header) : LinesNaming(ret.val, k) = 0
    /\ op = "CheckHTTPResponse" =>
        /\ \A k \in NotWanted(wantResp.Header) \ DOMAIN resp.Header : \A v \in ValueLists :
              LET more == [RespAtCall EXCEPT !.Header = WithHeader(resp.Header, k, v)]
              IN  /\ ret \in ResponseResults(more, wantResp)
                  /\ ResponseResults(more, wantResp) = ResponseResults(RespAtCall, wantResp)
        /\ \A k \in NotWanted(wantResp.Header) : LinesNaming(ret.val, k) = 0

\* a request that carries a header with a non-empty value under a name want
\* does not list, compared with a want that lists another header, with a diff
C6_Witness ==
    /\ op = "CheckHTTPRequest" /\ ret.kind = "return" /\ ret.val # EmptyString
    /\ DOMAIN wantReq.Header # {}
    /\ \E k \in DOMAIN req.Header \cap NotWanted(wantReq.Header) : Get(req.Header, k) # <<>>

----------------------------------------------------------------------------
(* Claims about the results of CheckHTTPRequest and CheckHTTPResponse *)

\* the bytes the body stream b still had to give
Remaining(b) == SliceFrom(b.data, b.pos)

\* the header names of wantH whose first value differs between the two sides
MismatchedHeaders(gotH, wantH) == {h \in DOMAIN wantH : Get(gotH, h) # Get(wantH, h)}

HeaderEntry(gotH, wantH, h) ==
    << Lit("header "), Quoted(h), Lit(" got value "), Quoted(Get(gotH, h)),
       Lit(", want "), Quoted(Get(wantH, h)) >>

\* one entry per name of the sequence names
HeaderEntries(gotH, wantH, names) ==
    [i \in 1..Len(names) |-> HeaderEntry(gotH, wantH, names[i])]

BodyEntry(g, w) == <<Lit("body is not expected, ")>> \o CompareStrings(g, w)

\* the text the claims describe: "" when diffs is empty, else the summary
\* line and the entries joined by newlines
Described(summary, diffs) ==
    IF diffs = <<>> THEN EmptyString ELSE <<Lit(summary)>> \o Join(diffs, <<Lit("\n")>>)

\* C7: CheckHTTPRequest returns "" when no field differs; otherwise the
\* summary line and the diff entries joined by newlines, in the order header
\* entries, method, URL, body ('body is not expected, ' + the CompareStrings
\* message), with an entry exactly for each category that mismatches.
C7_RequestEntriesExactlyTheMismatches ==
    (op = "CheckHTTPRequest" /\ ret.kind = "return") =>
        \E names \in Orders(MismatchedHeaders(req.Header, wantReq.Header)) :
            ret.val = Described("request does not match what is expected:\n",
                HeaderEntries(req.Header, wantReq.Header, names)
                \o (IF req.Method # wantReq.Method
                    THEN << << Lit("got method "), Quoted(req.Method), Lit(", want "),
                               Quoted(wantReq.Method) >> >>
                    ELSE <<>>)
                \o (IF URLString(req.URL) # wantReq.URL
                    THEN << << Lit("got url:\n  "), Quoted(URLString(req.URL)),
                               Lit("\nwant:\n  "), Quoted(wantReq.URL) >> >>
                    ELSE <<>>)
                \o (IF Remaining(inBody) # wantReq.Body
                    THEN <<BodyEntry(Remaining(inBody), wantReq.Body)>>
                    ELSE <<>>))

\* C8: CheckHTTPResponse returns "" when status code, every wanted header's
\* first value and body all match; otherwise the summary line 'response does
\* not match what is expected:' and one diff entry for each field that
\* mismatches (so exactly one entry when exactly one field mismatches), in
\* the order status code, headers, body.
C8_ResponseEntriesExactlyTheMismatches ==
    (op = "CheckHTTPResponse" /\ ret.kind = "return") =>
        \E names \in Orders(MismatchedHeaders(resp.Header, wantResp.Header)) :
            ret.val = Described("response does not match what is expected:\n",
                (IF resp.StatusCode # wantResp.StatusCode
                 THEN << << Lit("got status code "), Num(resp.StatusCode), Lit(", want "),
                            Num(wantResp.StatusCode) >> >>
                 ELSE <<>>)
                \o HeaderEntries(resp.Header, wantResp.Header, names)
                \o (IF Remaining(inBody) # wantResp.Body
                    THEN <<BodyEntry(Remaining(inBody), wantResp.Body)>>
                    ELSE <<>>))

\* the inputs of the last call, as values
Inputs ==
    <<gotStr, wantStr, err, wantMsg, [req EXCEPT !.Body = inBody], wantReq,
      [resp EXCEPT !.Body = inBody], wantResp, reqModel>>

\* C9: calling a comparator twice with identical inputs yields identical
\* output strings, also when want carries two or more header names that
\* each mismatch.
C9_SameInputsSameOutput ==
    [][(op # "none" /\ op' = op /\ Inputs' = Inputs) => ret' = ret]_vars

\* C10: CheckHTTPRequest and CheckHTTPResponse abort, with the underlying
\* cause, exactly when reading the body stream fails; in every other case,
\* a request or response without a body included, they return a diff string.
C10_AbortExactlyOnReadFailure ==
    op \in {"CheckHTTPRequest", "CheckHTTPResponse"} =>
        /\ (ret.kind = "panic") <=> (~inBody.isNil /\ inBody.broken)
        /\ ret.kind = "panic" => ret.cause = "read error"
        /\ ret.kind # "panic" => ret.kind = "return"

----------------------------------------------------------------------------
(* Claims about the body stream of the live request or response *)

\* the functions that read the body of the live object
ReadingOps == {"CheckHTTPRequest", "CheckHTTPResponse", "HTTPReqToTestutilHTTPReq"}

\* the body of the live object the test holds
LiveBody == IF req.live THEN req.Body ELSE resp.Body

\* C11: after CheckHTTPRequest, CheckHTTPResponse or HTTPReqToTestutilHTTPReq
\* finishes, whether it returns or aborts on a read failure, the body stream
\* it read has been released (closed).
C11_BodyReleasedAfterCall ==
    (op \in ReadingOps /\ ~inBody.isNil) => LiveBody.closed

\* an earlier call that read the body of the live object has returned
EarlierReadReturned == (op \in ReadingOps /\ ret.kind # "panic") \/ reqModel.made

\* the live request and response with a body stream that has nothing to give
ReqWithEmptyBody == [req EXCEPT !.Body = NewBody(<<>>)]
RespWithEmptyBody == [resp EXCEPT !.Body = NewBody(<<>>)]

\* the result of a comparator whose only diff is that the body is shorter
\* than the non-empty body w
OnlyShorterBody(summary, w) ==
    <<Lit(summary), Lit("body is not expected, ")>> \o ShorterMsg(w, 0)

\* one call, as a step from the state before it to the state after it
ConsumedOnce ==
    \* a call that reads the body and returns leaves the stream at its end
    /\ (op' \in ReadingOps /\ ret'.kind # "panic")
           => LiveBody'.pos = Len(LiveBody'.data)
    \* every later call finds nothing to read and returns normally: it
    \* compares want.Body with the empty string
    /\ (EarlierReadReturned /\ op' \in ReadingOps) =>
           /\ Remaining(inBody') = <<>>
           /\ ret'.kind # "panic"
           /\ op' = "CheckHTTPRequest" => ret' \in RequestResults(ReqWithEmptyBody, wantReq)
           /\ op' = "CheckHTTPResponse" => ret' \in ResponseResults(RespWithEmptyBody, wantResp)
           /\ op' = "HTTPReqToTestutilHTTPReq" => reqModel'.Body = <<>>
    \* a match with a non-empty want.Body is followed by a 'shorter string' diff
    /\ (op = "CheckHTTPRequest" /\ ret = Returned(EmptyString) /\ wantReq.Body # <<>>
            /\ op' = "CheckHTTPRequest")
           => ret' = Returned(OnlyShorterBody("request does not match what is expected:\n",
                                              wantReq.Body))
    /\ (op = "CheckHTTPResponse" /\ ret = Returned(EmptyString) /\ wantResp.Body # <<>>
            /\ op' = "CheckHTTPResponse")
           => ret' = Returned(OnlyShorterBody("response does not match what is expected:\n",
                                              wantResp.Body))

\* C12: the body of a live request or response is consumed exactly once:
\* after a call of CheckHTTPRequest, CheckHTTPResponse or
\* HTTPReqToTestutilHTTPReq that returns, the body stream is at its end, so
\* in any sequence of such calls on one object every call after the first
\* compares want.Body with the empty string, and a request (response) that
\* matched a non-empty want.Body on the first call gets the 'shorter string'
\* body diff on the second.
C12_BodyConsumedExactlyOnce == [][ConsumedOnce]_vars

\* a second CheckHTTPRequest on a request whose body, equal to the non-empty
\* want.Body, was read to its end before: it reports the 'shorter string' diff
C12_Witness ==
    /\ op = "CheckHTTPRequest"
    /\ wantReq.Body # <<>> /\ inBody.data = wantReq.Body
    /\ inBody.pos = Len(inBody.data)
    /\ ret = Returned(OnlyShorterBody("request does not match what is expected:\n",
                                      wantReq.Body))

====
